---- MODULE Spec2Model ----
(***************************************************************************)
(* Model of spot_advisor.py: the instance filter (get_filtered_instances), *)
(* the per-candidate price lookup (fetch_spot_price), the concurrent       *)
(* enrichment and rendering (display_instance_info) and main.              *)
(*                                                                         *)
(* Text is modelled as a sequence of one-character strings, so that the    *)
(* substring test, the comma split and the float parse are computed.       *)
(* Money is counted in hundredths of a dollar.  An optional value is the   *)
(* empty sequence (None) or a one-element sequence.                        *)
(***************************************************************************)
EXTENDS Integers, Sequences, FiniteSets, TLC

(* ------------------------------ bounds --------------------------------- *)
MaxCores == 2
MaxRam == 2
MaxTasks == 2

(* --------------------------- Python values ----------------------------- *)
None == <<>>
Some(x) == <<x>>
IsNone(o) == o = <<>>
Val(o) == o[1]

\* float('inf'), the default of --max-cores and --max-ram, next to a finite bound
Inf == [inf |-> TRUE, v |-> 0]
Fin(n) == [inf |-> FALSE, v |-> n]
\* a <= b for a number a and a bound b that may be float('inf')
LeqBound(a, b) == b.inf \/ a <= b.v

\* `sub in s` on str
IsSubstring(sub, s) ==
  \E i \in 0..(Len(s) - Len(sub)) : SubSeq(s, i + 1, i + Len(sub)) = sub

\* str.split(","): the pieces between the commas, empty pieces included
RECURSIVE SplitFrom(_, _, _)
SplitFrom(s, i, cur) ==
  IF i > Len(s) THEN <<cur>>
  ELSE IF s[i] = "," THEN <<cur>> \o SplitFrom(s, i + 1, <<>>)
  ELSE SplitFrom(s, i + 1, Append(cur, s[i]))
Split(s) == SplitFrom(s, 1, <<>>)

\* main: instance_types = args.instance_type.split(",") if args.instance_type else None
ParseInstanceTypes(arg) ==
  IF IsNone(arg) \/ Val(arg) = <<>> THEN None ELSE Some(Split(Val(arg)))

(* ------------------------ interruption ranges -------------------------- *)
ranges ==
  << [index |-> 0, label |-> "<5%",    dots |-> 0, max |-> 5],
     [index |-> 1, label |-> "5-10%",  dots |-> 1, max |-> 11],
     [index |-> 2, label |-> "10-15%", dots |-> 2, max |-> 16],
     [index |-> 3, label |-> "15-20%", dots |-> 3, max |-> 22],
     [index |-> 4, label |-> ">20%",   dots |-> 4, max |-> 100] >>

MatchingRanges(r_value) == SelectSeq(ranges, LAMBDA r : r.index = r_value)

\* next((r['label'] for r in ranges if r['index'] == r_value), "Unknown")
FreqLabel(r_value) ==
  IF MatchingRanges(r_value) # <<>> THEN MatchingRanges(r_value)[1].label ELSE "Unknown"

\* next((r['max'] for r in ranges if r['index'] == r_value), 100)
RangeMax(r_value) ==
  IF MatchingRanges(r_value) # <<>> THEN MatchingRanges(r_value)[1].max ELSE 100

(* --------------------------- instance filter --------------------------- *)
\* mutant: all() where the code has any()
PassesTypeFilter_All(it_type, instance_types) ==
  \/ IsNone(instance_types)
  \/ Val(instance_types) = <<>>
  \/ \A k \in 1..Len(Val(instance_types)) : IsSubstring(Val(instance_types)[k], it_type)

\* if instance_types and not any(it in it_type for it in instance_types): continue
PassesTypeFilter(it_type, instance_types) ==
  \/ IsNone(instance_types)
  \/ Val(instance_types) = <<>>
  \/ \E k \in 1..Len(Val(instance_types)) : IsSubstring(Val(instance_types)[k], it_type)

\* mutant: the upper bounds are exclusive
PassesRangeFilter_Strict(details, a) ==
  /\ a.min_cores <= details.cores
  /\ a.max_cores.inf \/ details.cores < a.max_cores.v
  /\ a.min_ram <= details.ram_gb
  /\ a.max_ram.inf \/ details.ram_gb < a.max_ram.v

\* if not (min_cores <= cores <= max_cores and min_ram <= ram_gb <= max_ram): continue
PassesRangeFilter(details, a) ==
  /\ a.min_cores <= details.cores
  /\ LeqBound(details.cores, a.max_cores)
  /\ a.min_ram <= details.ram_gb
  /\ LeqBound(details.ram_gb, a.max_ram)

\* region_data.get("Linux", {})
LinuxData(spot_advisor, region) ==
  IF "Linux" \in DOMAIN spot_advisor[region] THEN spot_advisor[region]["Linux"]
  ELSE << >>

\* if region in spot_advisor: ... if it_type in linux_data:
InRegionLinux(it_type, spot_advisor, region) ==
  /\ region \in DOMAIN spot_advisor
  /\ it_type \in DOMAIN LinuxData(spot_advisor, region)

\* mutant: `if max_interruption:` where the code has `is not None`
PassesInterruption_Truthy(r_value, max_interruption) ==
  \/ IsNone(max_interruption)
  \/ Val(max_interruption) = 0
  \/ ~(RangeMax(r_value) > Val(max_interruption))

\* if max_interruption is not None: ... if r_max > max_interruption: continue
PassesInterruption(r_value, max_interruption) ==
  IsNone(max_interruption) \/ ~(RangeMax(r_value) > Val(max_interruption))

\* the dict appended to filtered_instances
Candidate(it_type, details, adv) ==
  [instance_type |-> it_type, cores |-> details.cores, ram |-> details.ram_gb,
   discount |-> adv.s, frequency_of_interruption |-> FreqLabel(adv.r)]

\* one pass of the loop body: the candidates entry e contributes (none or one)
FilterEntry(e, doc, a, instance_types) ==
  IF ~PassesTypeFilter(e.name, instance_types) THEN <<>>
  ELSE IF ~PassesRangeFilter(e, a) THEN <<>>
  ELSE IF ~InRegionLinux(e.name, doc.spot_advisor, a.region) THEN <<>>
  ELSE IF ~PassesInterruption(LinuxData(doc.spot_advisor, a.region)[e.name].r,
                              a.max_interruption) THEN <<>>
  ELSE << Candidate(e.name, e, LinuxData(doc.spot_advisor, a.region)[e.name]) >>

\* for it_type, details in instance_types_data.items(): ...
RECURSIVE FilterFrom(_, _, _, _)
FilterFrom(doc, i, a, instance_types) ==
  IF i > Len(doc.instance_types) THEN <<>>
  ELSE FilterEntry(doc.instance_types[i], doc, a, instance_types)
         \o FilterFrom(doc, i + 1, a, instance_types)

FilterInstances(doc, a) == FilterFrom(doc, 1, a, ParseInstanceTypes(a.instance_type))

(* ------------------------- price-lookup values ------------------------- *)
\* what fetch_spot_price returns and what `price` holds: None, a str or a float
PyNone == [t |-> "none", s |-> <<>>, v |-> 0]
PyStr(s) == [t |-> "str", s |-> s, v |-> 0]
PyFloat(v) == [t |-> "float", s |-> <<>>, v |-> v]
NA == PyStr(<<"N", "/", "A">>)

\* truth value of a Python object: None, "" and 0.0 are false
Truthy(p) ==
  CASE p.t = "none" -> FALSE
    [] p.t = "str" -> p.s # <<>>
    [] p.t = "float" -> p.v # 0

Digits == {"0", "1", "2", "3", "4", "5", "6", "7", "8", "9"}
DigitVal(c) ==
  CASE c = "0" -> 0 [] c = "1" -> 1 [] c = "2" -> 2 [] c = "3" -> 3 [] c = "4" -> 4
    [] c = "5" -> 5 [] c = "6" -> 6 [] c = "7" -> 7 [] c = "8" -> 8 [] c = "9" -> 9

RECURSIVE DigitsValue(_)
DigitsValue(ds) ==
  IF ds = <<>> THEN 0
  ELSE 10 * DigitsValue(SubSeq(ds, 1, Len(ds) - 1)) + DigitVal(ds[Len(ds)])

DotPositions(s) == {i \in 1..Len(s) : s[i] = "."}
IntPart(s) ==
  IF DotPositions(s) = {} THEN s
  ELSE SubSeq(s, 1, (CHOOSE i \in DotPositions(s) : TRUE) - 1)
FracPart(s) ==
  IF DotPositions(s) = {} THEN <<>>
  ELSE SubSeq(s, (CHOOSE i \in DotPositions(s) : TRUE) + 1, Len(s))

\* float(s) succeeds on the decimal literals d+, d+.d*, .d+ ; on a text made of
\* other characters (the feed's "N/A*") it raises ValueError
FloatParses(s) ==
  /\ \A i \in 1..Len(s) : s[i] \in Digits \cup {"."}
  /\ Cardinality(DotPositions(s)) <= 1
  /\ \E i \in 1..Len(s) : s[i] \in Digits

\* float(s) in hundredths of a dollar (price texts carry at most two decimals)
FloatOf(s) ==
  100 * DigitsValue(IntPart(s))
    + (IF Len(FracPart(s)) = 0 THEN 0
       ELSE IF Len(FracPart(s)) = 1 THEN 10 * DigitsValue(FracPart(s))
       ELSE DigitsValue(FracPart(s)))

(* --------------------------- fetch_spot_price -------------------------- *)
RECURSIVE Concat(_)
Concat(ss) == IF ss = <<>> THEN <<>> ELSE ss[1] \o Concat(Tail(ss))

\* the sizes visited by the three nested loops, in visiting order
SizesOf(region_data) ==
  Concat([k \in 1..Len(region_data.instanceTypes) |-> region_data.instanceTypes[k].sizes])
SizesVisited(doc, region) ==
  Concat([k \in 1..Len(doc.regions) |->
            IF doc.regions[k].region = region THEN SizesOf(doc.regions[k]) ELSE <<>>])

\* next((vc['prices']['USD'] for vc in size.get("valueColumns", []) if vc["name"] == os), "N/A")
PriceOfSize(size, os) ==
  IF SelectSeq(size.valueColumns, LAMBDA vc : vc.name = os) # <<>>
  THEN PyStr(SelectSeq(size.valueColumns, LAMBDA vc : vc.name = os)[1].prices.USD)
  ELSE NA

\* the loops of fetch_spot_price over a parsed document: the first size that matches
\* decides; return None when none does
LookupPrice(doc, instance_type, region, os) ==
  IF SelectSeq(SizesVisited(doc, region), LAMBDA sz : sz.size = instance_type) # <<>>
  THEN PriceOfSize(SelectSeq(SizesVisited(doc, region),
                             LAMBDA sz : sz.size = instance_type)[1], os)
  ELSE PyNone

\* how one requests.get of a feed can end
Responses ==
  { [kind |-> "neterr", status |-> 0,   wellformed |-> FALSE],
    [kind |-> "http",   status |-> 503, wellformed |-> FALSE],
    [kind |-> "http",   status |-> 200, wellformed |-> FALSE],
    [kind |-> "http",   status |-> 200, wellformed |-> TRUE] }

\* requests.get or json.loads raises
Raises(resp) == resp.kind = "neterr" \/ (resp.status = 200 /\ ~resp.wellformed)

\* the outcome a future holds once fetch_spot_price has run
FetchSpotPrice(resp, doc, instance_type, region, os) ==
  IF Raises(resp) THEN [exc |-> TRUE, value |-> PyNone]
  ELSE IF resp.status = 200
  THEN [exc |-> FALSE, value |-> LookupPrice(doc, instance_type, region, os)]
  ELSE [exc |-> FALSE, value |-> PyNone]

(* ------------------------ the join loop's body ------------------------- *)
\* the try block raises: future.result() re-raises the task's error, or float() fails
TryRaises(outcome) ==
  \/ outcome.exc
  \/ /\ outcome.value # PyNone /\ outcome.value # NA
     /\ ~FloatParses(outcome.value.s)

\* `price` after the try/except
PriceAfterTry(outcome) ==
  IF TryRaises(outcome) THEN NA
  ELSE IF outcome.value # PyNone /\ outcome.value # NA
  THEN PyFloat(FloatOf(outcome.value.s))
  ELSE outcome.value

\* mutant: a price equal to the ceiling is dropped too
Dropped_Ge(outcome, max_usd) ==
  /\ ~TryRaises(outcome)
  /\ PriceAfterTry(outcome).t = "float"
  /\ ~IsNone(max_usd)
  /\ PriceAfterTry(outcome).v >= Val(max_usd)

\* if max_usd is not None and price > max_usd: continue
Dropped(outcome, max_usd) ==
  /\ ~TryRaises(outcome)
  /\ PriceAfterTry(outcome).t = "float"
  /\ ~IsNone(max_usd)
  /\ PriceAfterTry(outcome).v > Val(max_usd)

\* price or "N/A"
PriceCell(price) == IF Truthy(price) THEN price ELSE NA

\* the row handed to table.add_row
Row(instance, outcome) ==
  [instance_type |-> instance.instance_type, cores |-> instance.cores,
   ram |-> instance.ram, discount |-> instance.discount,
   frequency_of_interruption |-> instance.frequency_of_interruption,
   usd |-> PriceCell(PriceAfterTry(outcome))]

\* mutant: an unguarded read-modify-write of the row list that loses the earlier rows
AddRow_LostUpdate(t, row) == << row >>

\* table.add_row
AddRow(t, row) == Append(t, row)

(* ------------------------------- inputs -------------------------------- *)
TypeNameList ==
  << <<"m", "6", "i">>, <<"m", "5">>, <<"c", "6", "i">>, <<"t", "3">>, <<"r", "5">> >>

\* the price texts spot.js carries for the Linux column of each size, in list order;
\* the last type of TypeNameList has no size entry at all
PriceTexts ==
  << <<"0", ".", "0", "4">>, <<"0", ".", "0", "5">>, <<"0">>, <<"N", "/", "A", "*">> >>

SizeEntry(k) ==
  [size |-> TypeNameList[k],
   valueColumns |-> << [name |-> "linux", prices |-> [USD |-> PriceTexts[k]]],
                       [name |-> "mswin", prices |-> [USD |-> <<"0", ".", "0", "9">>]] >>]

\* spot.js after unwrapping: config.regions
ThePriceDoc ==
  [regions |->
     << [region |-> "eu-west-1", instanceTypes |-> << [sizes |-> << SizeEntry(2) >>] >>],
        [region |-> "us-east-1",
         instanceTypes |-> << [sizes |-> << SizeEntry(1), SizeEntry(2) >>],
                              [sizes |-> << SizeEntry(3), SizeEntry(4) >>] >>] >>]

\* spot-advisor-data.json: the types ks (indexes of TypeNameList, ascending) with cores
\* cs[k] and ram rs[k]; the types of lin are listed under us-east-1/Linux with index rv[k]
SeqOfSet(S) ==
  [i \in 1..Cardinality(S) |->
     CHOOSE k \in S : Cardinality({j \in S : j < k}) = i - 1]

AdvisorDoc(ks, cs, rs, lin, rv) ==
  [instance_types |->
     [i \in 1..Cardinality(ks) |->
        [name |-> TypeNameList[SeqOfSet(ks)[i]],
         cores |-> cs[SeqOfSet(ks)[i]], ram_gb |-> rs[SeqOfSet(ks)[i]]]],
   spot_advisor |->
     [rg \in {"us-east-1"} |->
        [Linux |-> [nm \in {TypeNameList[k] : k \in lin} |->
                      [s |-> 70, r |-> rv[CHOOSE k \in lin : TypeNameList[k] = nm]]],
         Windows |-> [nm \in {TypeNameList[k] : k \in ks} |-> [s |-> 60, r |-> 0]]]]]

RValues == {1, 2, 7}

FilterDocs ==
  UNION { { AdvisorDoc(ks, cs, rs, lin, rv) :
              cs \in [ks -> 1..MaxCores], rs \in [ks -> 1..MaxRam],
              rv \in [lin -> RValues] } :
          ks \in {{1}, {1, 2}}, lin \in SUBSET {1, 2} }

EnrichDocs ==
  { AdvisorDoc(ks, [k \in ks |-> 1], [k \in ks |-> 1], ks, [k \in ks |-> 1]) :
      ks \in {S \in SUBSET (1..Len(TypeNameList)) : S # {} /\ Cardinality(S) <= MaxTasks} }

CoreBounds == { <<0, Inf>>, <<MaxCores, Fin(MaxCores)>>, <<0, Fin(1)>> }
RamBounds == { <<0, Inf>>, <<MaxRam, Fin(MaxRam)>>, <<0, Fin(1)>> }
InterruptionArgs == { None, Some(0), Some(12), Some(100) }
RegionArgs == { "us-east-1", "eu-west-1" }
InstanceTypeArgs == { None, Some(<<"6", "i">>), Some(<<"x", ",", "5">>) }

Args(cb, rb, mi, rg, it, os, usd) ==
  [min_cores |-> cb[1], max_cores |-> cb[2], min_ram |-> rb[1], max_ram |-> rb[2],
   max_interruption |-> mi, region |-> rg, os |-> os, instance_type |-> it,
   max_usd |-> usd]

FilterArgs ==
  { Args(cb, rb, mi, rg, it, "linux", None) :
      cb \in CoreBounds, rb \in RamBounds, mi \in InterruptionArgs,
      rg \in RegionArgs, it \in InstanceTypeArgs }

EnrichArgs ==
  { Args(<<0, Inf>>, <<0, Inf>>, None, rg, None, os, usd) :
      rg \in RegionArgs, os \in {"linux", "windows"}, usd \in {None, Some(4)} }

(* -------------------------------- state -------------------------------- *)
VARIABLES
  args,                \* the parsed command line
  advisor_doc,         \* the document served at SPOT_ADVISOR_URL
  price_doc,           \* the document served at SPOT_PRICE_URL
  pc,                  \* where the main thread is
  filtered_instances,  \* the list get_filtered_instances returned
  futures,             \* per candidate: the state and outcome of its lookup task
  yielded,             \* the futures as_completed has handed to the loop
  table,               \* the rows of the PrettyTable
  stdout,              \* what was printed, in order
  exit_code            \* the process's exit status, None while it runs

vars == << args, advisor_doc, price_doc, pc, filtered_instances, futures, yielded,
           table, stdout, exit_code >>

Line(kind) == [kind |-> kind, rows |-> <<>>]

InitRest ==
  /\ price_doc = ThePriceDoc
  /\ pc = "start"
  /\ filtered_instances = <<>>
  /\ futures = <<>>
  /\ yielded = {}
  /\ table = <<>>
  /\ stdout = <<>>
  /\ exit_code = None

InitFilter == args \in FilterArgs /\ advisor_doc \in FilterDocs /\ InitRest
Init == args \in EnrichArgs /\ advisor_doc \in EnrichDocs /\ InitRest

(* ------------------------------- actions ------------------------------- *)
\* main calls get_filtered_instances; an error raised inside it ends the process
GetFilteredInstances ==
  /\ pc = "start"
  /\ \E resp \in Responses :
       IF Raises(resp)
       THEN /\ pc' = "done"
            /\ stdout' = Append(stdout, Line("traceback"))
            /\ exit_code' = Some(1)
            /\ UNCHANGED filtered_instances
       ELSE IF resp.status = 200
       THEN /\ filtered_instances' = FilterInstances(advisor_doc, args)
            /\ pc' = "branch"
            /\ UNCHANGED << stdout, exit_code >>
       ELSE /\ filtered_instances' = <<>>
            /\ stdout' = Append(stdout, Line("failed"))
            /\ pc' = "branch"
            /\ UNCHANGED exit_code
  /\ UNCHANGED << args, advisor_doc, price_doc, futures, yielded, table >>

\* main, else branch: print("No instances match the given criteria.") and return
MainNoMatch ==
  /\ pc = "branch"
  /\ filtered_instances = <<>>
  /\ stdout' = Append(stdout, Line("nomatch"))
  /\ pc' = "done"
  /\ exit_code' = Some(0)
  /\ UNCHANGED << args, advisor_doc, price_doc, filtered_instances, futures, yielded, table >>

\* display_instance_info up to the loop: the table is created, one task per instance
\* is submitted to the executor
SubmitTasks ==
  /\ pc = "branch"
  /\ filtered_instances # <<>>
  /\ table' = <<>>
  /\ futures' = [i \in 1..Len(filtered_instances) |->
                   [state |-> "pending", exc |-> FALSE, value |-> PyNone]]
  /\ yielded' = {}
  /\ pc' = "join"
  /\ UNCHANGED << args, advisor_doc, price_doc, filtered_instances, stdout, exit_code >>

\* a worker thread runs fetch_spot_price for candidate i and stores the outcome
RunTask(i) ==
  /\ futures[i].state = "pending"
  /\ \E resp \in Responses :
       futures' = [futures EXCEPT ![i] =
                     [state |-> "finished"] @@
                     FetchSpotPrice(resp, price_doc, filtered_instances[i].instance_type,
                                    args.region, args.os)]
  /\ UNCHANGED << args, advisor_doc, price_doc, pc, filtered_instances, yielded, table,
                  stdout, exit_code >>

\* mutant: the loop takes futures in submission order without waiting for them
Completed_NoWait(f) == TRUE

\* as_completed hands out a future once its task has finished
Completed(f) == f.state = "finished"

\* one pass of `for future in as_completed(...)` for candidate i
JoinStep(i) ==
  /\ pc = "join"
  /\ i \notin yielded
  /\ Completed(futures[i])
  /\ yielded' = yielded \cup {i}
  /\ stdout' = IF TryRaises(futures[i]) THEN Append(stdout, Line("error")) ELSE stdout
  /\ table' = IF Dropped(futures[i], args.max_usd) THEN table
              ELSE AddRow(table, Row(filtered_instances[i], futures[i]))
  /\ UNCHANGED << args, advisor_doc, price_doc, pc, filtered_instances, futures, exit_code >>

\* as_completed is exhausted when every submitted future has been handed out
LoopDone == yielded = DOMAIN futures

\* the loop and the with block end, print(table), main returns
PrintTable ==
  /\ pc = "join"
  /\ LoopDone
  /\ stdout' = Append(stdout, [kind |-> "table", rows |-> table])
  /\ pc' = "done"
  /\ exit_code' = Some(0)
  /\ UNCHANGED << args, advisor_doc, price_doc, filtered_instances, futures, yielded, table >>

NextFilter == GetFilteredInstances

Next ==
  \/ GetFilteredInstances
  \/ MainNoMatch
  \/ SubmitTasks
  \/ \E i \in DOMAIN futures : RunTask(i)
  \/ \E i \in DOMAIN futures : JoinStep(i)
  \/ PrintTable

SpecFilter == InitFilter /\ [][NextFilter]_vars
Spec == Init /\ [][Next]_vars

(* ------------------------ vocabulary of the claims --------------------- *)
Printed(kind) == \E k \in 1..Len(stdout) : stdout[k].kind = kind

\* get_filtered_instances fetched and parsed the dataset and returned its list
FilterRan == pc # "start" /\ ~Printed("failed") /\ ~Printed("traceback")

Entries == {advisor_doc.instance_types[k] : k \in 1..Len(advisor_doc.instance_types)}
Candidates == {filtered_instances[k] : k \in 1..Len(filtered_instances)}
CandidatesOf(e) ==
  {k \in 1..Len(filtered_instances) : filtered_instances[k].instance_type = e.name}

InCoreRange(e) ==
  args.min_cores <= e.cores /\ (args.max_cores.inf \/ e.cores <= args.max_cores.v)
InRamRange(e) ==
  args.min_ram <= e.ram_gb /\ (args.max_ram.inf \/ e.ram_gb <= args.max_ram.v)
OnABound(e) ==
  \/ e.cores = args.min_cores
  \/ (~args.max_cores.inf /\ e.cores = args.max_cores.v)
  \/ e.ram_gb = args.min_ram
  \/ (~args.max_ram.inf /\ e.ram_gb = args.max_ram.v)

SubstringListAbsent == IsNone(ParseInstanceTypes(args.instance_type))
SomeSubstringMatches(e) ==
  /\ ~SubstringListAbsent
  /\ \E k \in 1..Len(Val(ParseInstanceTypes(args.instance_type))) :
       IsSubstring(Val(ParseInstanceTypes(args.instance_type))[k], e.name)

ListedForLinux(e) ==
  /\ args.region \in DOMAIN advisor_doc.spot_advisor
  /\ "Linux" \in DOMAIN advisor_doc.spot_advisor[args.region]
  /\ e.name \in DOMAIN advisor_doc.spot_advisor[args.region]["Linux"]
IndexOf(e) == advisor_doc.spot_advisor[args.region]["Linux"][e.name].r

KnownIndex(r) == \E k \in 1..Len(ranges) : ranges[k].index = r
RangeOf(r) == ranges[CHOOSE k \in 1..Len(ranges) : ranges[k].index = r]
MaxPercentOf(r) == IF KnownIndex(r) THEN RangeOf(r).max ELSE 100
LabelOf(r) == IF KnownIndex(r) THEN RangeOf(r).label ELSE "Unknown"

UnderCeiling(e) ==
  IsNone(args.max_interruption) \/ MaxPercentOf(IndexOf(e)) <= Val(args.max_interruption)

Survives(e) ==
  /\ SubstringListAbsent \/ SomeSubstringMatches(e)
  /\ InCoreRange(e) /\ InRamRange(e)
  /\ ListedForLinux(e)
  /\ UnderCeiling(e)

(* ------------------------------- C1 ------------------------------------ *)
\* C1: every candidate get_filtered_instances returns has cores and RAM inside the
\* inclusive bounds, both at once, and an entry that sits exactly on a bound (and passes
\* the other filters) is returned.
C1_RangeInclusive ==
  FilterRan =>
    /\ \A c \in Candidates :
         /\ args.min_cores <= c.cores
         /\ args.max_cores.inf \/ c.cores <= args.max_cores.v
         /\ args.min_ram <= c.ram
         /\ args.max_ram.inf \/ c.ram <= args.max_ram.v
    /\ \A e \in Entries :
         ( /\ OnABound(e) /\ InCoreRange(e) /\ InRamRange(e)
           /\ SubstringListAbsent \/ SomeSubstringMatches(e)
           /\ ListedForLinux(e) /\ UnderCeiling(e) )
         => CandidatesOf(e) # {}

\* a candidate whose cores equal both core bounds and whose RAM equals the upper RAM
\* bound was returned, next to an entry that the range filter excluded
C1_Witness ==
  /\ FilterRan
  /\ \E c \in Candidates :
       /\ c.cores = args.min_cores /\ ~args.max_cores.inf /\ c.cores = args.max_cores.v
       /\ ~args.max_ram.inf /\ c.ram = args.max_ram.v
  /\ \E e \in Entries : ~InCoreRange(e) /\ CandidatesOf(e) = {}

(* ------------------------------- C2 ------------------------------------ *)
\* C2: with an interruption ceiling supplied no returned candidate's range maxPercent
\* exceeds it; a ceiling of 0 returns nothing and a ceiling of 12 returns no candidate
\* of the "10-15%" bucket.
C2_InterruptionCeiling ==
  (FilterRan /\ ~IsNone(args.max_interruption)) =>
    /\ \A e \in Entries :
         CandidatesOf(e) # {} =>
           (ListedForLinux(e) /\ MaxPercentOf(IndexOf(e)) <= Val(args.max_interruption))
    /\ Val(args.max_interruption) = 0 => filtered_instances = <<>>
    /\ Val(args.max_interruption) = 12 =>
         \A c \in Candidates : c.frequency_of_interruption # "10-15%"

\* under a ceiling of 12 a "5-10%" entry was returned and a "10-15%" entry that passes
\* every other filter was not
C2_Witness ==
  /\ FilterRan
  /\ args.max_interruption = Some(12)
  /\ \E c \in Candidates : c.frequency_of_interruption = "5-10%"
  /\ \E e \in Entries :
       /\ InCoreRange(e) /\ InRamRange(e) /\ ListedForLinux(e)
       /\ SubstringListAbsent \/ SomeSubstringMatches(e)
       /\ IndexOf(e) = 2
       /\ CandidatesOf(e) = {}

(* ------------------------------- C3 ------------------------------------ *)
\* C3: get_filtered_instances returns exactly one candidate for each entry that survives
\* all filters and none for any other; the candidate's label is the range label of the
\* entry's index, or "Unknown" when no range has that index.
C3_ExactlySurvivors ==
  FilterRan =>
    /\ \A e \in Entries :
         Cardinality(CandidatesOf(e)) = (IF Survives(e) THEN 1 ELSE 0)
    /\ \A c \in Candidates : \E e \in Entries : e.name = c.instance_type
    /\ \A e \in Entries : \A k \in CandidatesOf(e) :
         filtered_instances[k].frequency_of_interruption = LabelOf(IndexOf(e))

\* a two-piece substring list whose second piece alone matches: the matching entry was
\* returned with the label "Unknown", the other entry was not returned
C3_Witness ==
  /\ FilterRan
  /\ ~SubstringListAbsent
  /\ Len(Val(ParseInstanceTypes(args.instance_type))) = 2
  /\ \E e \in Entries :
       /\ CandidatesOf(e) # {}
       /\ ~KnownIndex(IndexOf(e))
       /\ \A k \in CandidatesOf(e) :
            filtered_instances[k].frequency_of_interruption = "Unknown"
  /\ \E e \in Entries : ~SomeSubstringMatches(e) /\ CandidatesOf(e) = {}

(* ------------------- vocabulary of the enrichment claims --------------- *)
Tasks == DOMAIN futures
RowsOf(i) ==
  {k \in 1..Len(table) : table[k].instance_type = filtered_instances[i].instance_type}
Finished(i) == futures[i].state = "finished"

\* the lookup task of candidate i raised
TaskFailed(i) == Finished(i) /\ futures[i].exc
\* the lookup returned a text that parses as a number
FoundNumeric(i) ==
  /\ Finished(i) /\ ~futures[i].exc
  /\ futures[i].value.t = "str" /\ futures[i].value # NA
  /\ FloatParses(futures[i].value.s)
NumericPrice(i) == FloatOf(futures[i].value.s)
AboveCeiling(i) ==
  FoundNumeric(i) /\ ~IsNone(args.max_usd) /\ NumericPrice(i) > Val(args.max_usd)

\* the table has been printed: display_instance_info has run to its end
TablePrinted == Printed("table")

(* ------------------------------- C4 ------------------------------------ *)
\* C4: when exactly one lookup task raised, its candidate has a row with "N/A", and
\* every other candidate has its row with the price its own lookup returned (no row when
\* that price is above the ceiling), whatever the completion order.
C4_Isolation ==
  (TablePrinted /\ Cardinality({i \in Tasks : TaskFailed(i)}) = 1) =>
    \A i \in Tasks :
      IF TaskFailed(i)
      THEN Cardinality(RowsOf(i)) = 1 /\ \A k \in RowsOf(i) : table[k].usd = NA
      ELSE IF AboveCeiling(i) THEN RowsOf(i) = {}
      ELSE /\ Cardinality(RowsOf(i)) = 1
           /\ \A k \in RowsOf(i) :
                table[k].usd =
                  (IF FoundNumeric(i) THEN PyFloat(NumericPrice(i)) ELSE NA)

(* ------------------------------- C5 ------------------------------------ *)
\* C5: a candidate has no row in the printed table iff its lookup found a numeric price,
\* a ceiling was supplied and the price is strictly above it; a price equal to the
\* ceiling and an unavailable price keep their row.
C5_PriceCeiling ==
  TablePrinted => \A i \in Tasks : (RowsOf(i) = {}) <=> AboveCeiling(i)

\* under a ceiling, one candidate priced exactly at the ceiling kept its row and one
\* priced above it has none
C5_Witness ==
  /\ TablePrinted
  /\ ~IsNone(args.max_usd)
  /\ \E i \in Tasks :
       FoundNumeric(i) /\ NumericPrice(i) = Val(args.max_usd) /\ RowsOf(i) # {}
  /\ \E i \in Tasks : AboveCeiling(i) /\ RowsOf(i) = {}

(* ------------------------------- C6 ------------------------------------ *)
\* C6: the process exits non-zero exactly when the availability dataset fetch failed
\* (network failure, non-success status or malformed body), and then nothing but the
\* diagnostic is printed; in every other case it exits zero.
AdvisorFetchFailed == Printed("failed") \/ Printed("traceback")
C6_ExitCode ==
  pc = "done" =>
    /\ AdvisorFetchFailed <=> exit_code # Some(0)
    /\ AdvisorFetchFailed => ~Printed("nomatch") /\ ~Printed("table")

(* ------------------------------- C7 ------------------------------------ *)
\* C7: the table is printed only when every submitted task has finished, and a
\* candidate's row is added only after that candidate's task has finished.
C7_JoinBeforeRender ==
  /\ TablePrinted => \A i \in Tasks : Finished(i)
  /\ \A i \in Tasks : RowsOf(i) # {} => Finished(i)
  /\ (\E i \in Tasks : ~Finished(i)) => ~TablePrinted

\* a row was added for one candidate while another candidate's task was still pending,
\* and nothing has been printed
C7_Witness ==
  /\ pc = "join"
  /\ \E i \in Tasks : RowsOf(i) # {}
  /\ \E i \in Tasks : ~Finished(i)
  /\ stdout = <<>>

(* ------------------------------- C8 ------------------------------------ *)
\* C8: whenever the run ends with no enriched candidate, because the filter matched
\* nothing or because the price ceiling dropped every candidate, it has printed the
\* "no instances match" message, no table, and exits zero.
C8_EmptyResult ==
  (pc = "done" /\ ~Printed("traceback") /\ table = <<>>) =>
    /\ Printed("nomatch")
    /\ ~Printed("table")
    /\ exit_code = Some(0)

(* ------------------------------- C9 ------------------------------------ *)
\* each candidate has at most one row, and only once the loop has taken its future; the
\* printed rows are, as a set, the rows of the candidates that were not dropped
RowsInv ==
  /\ \A i \in Tasks : Cardinality(RowsOf(i)) <= 1 /\ (RowsOf(i) # {} => i \in yielded)
  /\ Len(table) = Cardinality({i \in yielded : ~Dropped(futures[i], args.max_usd)})
  /\ TablePrinted =>
       {table[k] : k \in 1..Len(table)} =
         {Row(filtered_instances[i], futures[i]) :
            i \in {j \in Tasks : ~Dropped(futures[j], args.max_usd)}}
\* C9: rows are appended only by the join loop of the main thread, never by a lookup
\* task; each candidate has at most one row, a row only once the loop has taken its
\* future, and the printed rows are, as a set, the rows of the candidates that were not
\* dropped, whatever the completion order.
C9_SingleAppender ==
  /\ []RowsInv
  /\ [][ /\ (\E i \in Tasks : RunTask(i)) => table' = table
         /\ table' # table => (pc = "join" /\ Len(table') = Len(table) + 1) ]_vars

\* two tasks finished, the loop took the second-submitted one first, and both rows are in
\* the printed table
C9_Witness ==
  /\ TablePrinted
  /\ Len(table) = 2
  /\ table[1].instance_type = filtered_instances[2].instance_type
  /\ table[2].instance_type = filtered_instances[1].instance_type

(* ------------------------------- C10 ----------------------------------- *)
\* C10: a candidate whose lookup returned a text that parses as a number, and that the
\* ceiling did not drop, has its row with exactly that number, a price of 0 included;
\* "N/A" is shown only for a candidate whose lookup found nothing or failed.
C10_NumericPriceShown ==
  TablePrinted =>
    \A i \in Tasks :
      /\ (FoundNumeric(i) /\ ~AboveCeiling(i)) =>
           /\ RowsOf(i) # {}
           /\ \A k \in RowsOf(i) : table[k].usd = PyFloat(NumericPrice(i))
      /\ (\E k \in RowsOf(i) : table[k].usd = NA) => ~FoundNumeric(i)

====
